---- MODULE Spec2Model ----
(***************************************************************************)
(* Operator console of the fraud-resolution fabric (frontend).             *)
(*                                                                         *)
(*   - the stream session of the console page (start, reconnect, stop,     *)
(*     transport error, message delivery), the stored snapshot and the     *)
(*     Status Broadcast:            src/frontend/src/app/page.tsx          *)
(*   - the Status Broadcast provider: src/unnamed/part_004                 *)
(*   - the incremental reveal engine: src/unnamed/part_003                 *)
(*                                                                         *)
(* Texts are sequences of one-character strings.  Optional values of the   *)
(* source (undefined / null) are the strings Undefined and Null.           *)
(***************************************************************************)
EXTENDS Integers, Sequences, FiniteSets, TLC

\* ------------------------------------------------------------------ bounds
\* start calls issued over one run
MaxStarts == 2
\* longest text handed to the reveal engine
MaxLen == 3

\* ------------------------------------------------------------ source values
Undefined == "undefined"
Null == "null"
\* useState<string | null>(null): no session
NoSession == 0
\* useRef<EventSource | null>(null), useRef<number | null>(null)
NullRef == 0
\* useState<number | null>(null): no log index selected
NullIndex == 0 - 1

VARIABLES
  \* page.tsx, Home component state
  alerts, loading, sessionId, state, streamRef, localConnected, localStatus,
  selectedLogIndex,
  \* environment of the page: open EventSource handles, start calls awaiting
  \* their response, session ids the backend has issued
  handles, inFlight, started, issued,
  \* part_004, UIStatusProvider state
  ui,
  \* part_003, useIncrementalStream: hook argument, state, refs, the interval
  \* timers the window holds, whether the last effect run returned a cleanup
  fullText, displayed, prevRef, timerRef, timers, hasCleanup,
  \* page.tsx, the alert list: view settings, the memoized list, what
  \* localStorage holds under VIEW_STORAGE_KEY, whether the storage takes
  \* reads and writes, how far the startup effects have run
  alertSearch, sortKey, sortAsc, alertsView, filteredAlerts, storage,
  storageOk, phase,
  \* history variables (what happened last), read by the properties only
  lastEvent, errSeq, applied, ticks, lastChange, onlyAppends,
  \* the file the step just taken handed to the browser, and what the storage
  \* held when the page was opened
  download, storedAtStart,
  \* page.tsx, the backend address, and the alert requests (each for the
  \* address it was sent to) that have not settled yet
  backendUrl, alertRequests

pageVars == <<alerts, loading, sessionId, state, streamRef, localConnected,
              localStatus, selectedLogIndex, handles, inFlight, started,
              issued, ui>>
pageHist == <<lastEvent, errSeq, applied>>
revealVars == <<fullText, displayed, prevRef, timerRef, timers, hasCleanup>>
revealHist == <<ticks, lastChange, onlyAppends>>
triageVars == <<alertSearch, sortKey, sortAsc, alertsView, filteredAlerts,
                storage, storageOk, phase>>
triageHist == <<download, storedAtStart>>
loadVars == <<backendUrl, alertRequests>>
vars == <<pageVars, pageHist, revealVars, revealHist, triageVars, triageHist,
         loadVars>>

\* ---------------------------------------------------------------- payloads
Str(s) == [t |-> "string", v |-> s]
\* a structured payload, carried as its JSON text
Obj(s) == [t |-> "object", v |-> s]
NullPayload == [t |-> "null", v |-> <<>>]
NoValue == [t |-> "undefined", v |-> <<>>]

\* `stages` holds the further keys of the object ([key: string]: unknown):
\* per-stage payloads stored under the name of a log line
Snapshot(lg, ar, cs, ts, sa, cid) ==
  [logs |-> lg, agent_responses |-> ar, current_step |-> cs,
   total_steps |-> ts, streaming_agent |-> sa, case_id |-> cid,
   stages |-> {}]

\* the snapshot with payload val stored under key k
WithStage(snap, k, val) ==
  [snap EXCEPT !.stages = @ \cup {[key |-> k, val |-> val]}]

\* useState<BackendState>({ logs: [], agent_responses: [], dialogue_history: [] })
InitialState == Snapshot(<<>>, <<>>, Undefined, Undefined, Undefined, Undefined)

\* Snapshots the backend may push (an absent list reads like an empty one in
\* every expression of the page: `x || []`, `Array.isArray(x) && i < x.length`).
Snapshots ==
  { Snapshot(<<>>, <<>>, Undefined, Undefined, Undefined, Undefined),
    Snapshot(<<"intake">>, <<Str(<<"a","b">>)>>, "1", Undefined,
             "IntakeAgent", Undefined),
    Snapshot(<<"intake","risk">>,
             <<Str(<<"a","b">>), Obj(<<"{","}">>)>>, "2", "5",
             "RiskAssessor", "case-1"),
    Snapshot(<<"intake","risk">>, <<Str(<<"a">>)>>, "2", "5",
             Undefined, "case-1"),
    Snapshot(<<"intake">>, <<Str(<<"a","b">>), NullPayload>>, "1", "5",
             "IntakeAgent", Undefined) }

\* An inbound message: a body that JSON.parse rejects, or the JSON text of a
\* snapshot.
BadJson == [parses |-> FALSE, body |-> InitialState]
JsonOf(s) == [parses |-> TRUE, body |-> s]
Messages == {BadJson} \cup {JsonOf(s) : s \in Snapshots}

\* fetched alert collections (GET /api/alerts)
\* Text is a sequence of tokens; a token is a character or an unbroken word.
\* An alert field that is absent reads as its empty value: every read in the
\* page is `a.f || ''` or `a.f || 0`.
Alert(id, risk, amt, date, desc) ==
  [alert_id |-> id, customer_id |-> <<>>, rule_id |-> <<>>, amount |-> amt,
   currency |-> <<>>, risk_score |-> risk, queue |-> <<>>, priority |-> <<>>,
   status |-> <<>>, description |-> desc, regulatory_alert_type |-> <<>>,
   alert_date |-> date]


SomeAlerts ==
  <<Alert(<<"A", "1">>, 900, 5, 1, <<>>), Alert(<<"A", "2">>, 100, 7, 2, <<>>)>>
AlertLists == { <<>>, SomeAlerts }

\* ---------------------------------------------------- Status Broadcast
InitialUIStatus ==
  [connected |-> FALSE, status |-> "Idle", currentStep |-> Undefined,
   totalSteps |-> Undefined, streamingAgent |-> Undefined,
   sessionId |-> NoSession, caseId |-> Undefined]

SetUIStatusReplaces(prev, next) ==
  [f \in DOMAIN prev |->
     IF f \in DOMAIN next THEN next[f] ELSE InitialUIStatus[f]]

\* setUIStatus: setState((prev) => ({ ...prev, ...next }))
SetUIStatus(prev, next) ==
  [f \in DOMAIN prev |-> IF f \in DOMAIN next THEN next[f] ELSE prev[f]]

\* x || y for optional strings
OrElse(x, y) == IF x = Undefined THEN y ELSE x

\* ------------------------------------------------------ derived views
Last(s) == s[Len(s)]

\* typeof val === 'string' ? val : (val ? JSON.stringify(val) : undefined)
Render(val) ==
  IF val.t = "string" THEN val
  ELSE IF val.t = "object" THEN Str(val.v)
  ELSE NoValue

LatestOf(st) ==
  IF Len(st.agent_responses) = 0 THEN NoValue ELSE Last(st.agent_responses)

SelectedAgentResponse(st, idx) ==
  IF idx # NullIndex /\ idx >= 0 /\ idx < Len(st.agent_responses)
  THEN Render(st.agent_responses[idx + 1])
  ELSE Render(LatestOf(st))

\* --------------------------------------------- page.tsx: the alert list
\* String.prototype.toLowerCase / toUpperCase on the tokens in use
LowerToken(c) ==
  CASE c = "A" -> "a"
    [] c = "B" -> "b"
    [] c = "Device" -> "device"
    [] c = "Investment" -> "investment"
    [] c = "RUL-TX230" -> "rul-tx230"
    [] OTHER -> c
UpperToken(c) ==
  CASE c = "a" -> "A"
    [] c = "b" -> "B"
    [] c = "x" -> "X"
    [] c = "y" -> "Y"
    [] c = "rul-tx817" -> "RUL-TX817"
    [] OTHER -> c
ToLowerCase(s) == [i \in 1..Len(s) |-> LowerToken(s[i])]
ToUpperCase(s) == [i \in 1..Len(s) |-> UpperToken(s[i])]

\* String.prototype.includes
Includes(s, n) ==
  \E i \in 0..(Len(s) - Len(n)) : SubSeq(s, i + 1, i + Len(n)) = n

\* String.prototype.trim
RECURSIVE Trim(_)
Trim(s) ==
  IF s = <<>> THEN s
  ELSE IF Head(s) \in {" ", "\t", "\n"} THEN Trim(Tail(s))
  ELSE IF s[Len(s)] \in {" ", "\t", "\n"}
       THEN Trim(SubSeq(s, 1, Len(s) - 1))
  ELSE s

\* the search predicate of filteredAlerts; q is the lower-cased search text
MatchesSearch(a, q) ==
  \/ Includes(ToLowerCase(a.alert_id), q)
  \/ Includes(ToLowerCase(a.description), q)

\* the view predicate of filteredAlerts
InView(a, view) ==
  LET risk == a.risk_score
      rule == ToUpperCase(a.rule_id)
      reg == ToLowerCase(a.regulatory_alert_type)
  IN CASE view = "high" -> risk >= 800
       [] view = "bec" -> \/ Includes(reg, <<"business email compromise">>)
                          \/ Includes(rule, <<"RUL-TX230">>)
                          \/ Includes(rule, <<"RUL-BEC008">>)
       [] view = "investment" -> \/ Includes(reg, <<"investment">>)
                                 \/ Includes(rule, <<"RUL-TX488">>)
       [] view = "device" -> \/ Includes(rule, <<"RUL-TX817">>)
                             \/ Includes(ToLowerCase(a.queue), <<"device">>)
       [] OTHER -> TRUE

\* compare(a, b) of filteredAlerts
Compare(a, b, key) ==
  CASE key = "risk" -> a.risk_score - b.risk_score
    [] key = "amount" -> a.amount - b.amount
    [] key = "date" -> a.alert_date - b.alert_date
    [] OTHER -> 0

\* Array.prototype.sort(compare): ascending and stable
RECURSIVE InsertSorted(_, _, _)
InsertSorted(x, sorted, key) ==
  IF sorted = <<>> THEN <<x>>
  ELSE IF Compare(Head(sorted), x, key) <= 0
       THEN <<Head(sorted)>> \o InsertSorted(x, Tail(sorted), key)
       ELSE <<x>> \o sorted
RECURSIVE Sort(_, _)
Sort(list, key) ==
  IF list = <<>> THEN <<>>
  ELSE InsertSorted(list[Len(list)], Sort(SubSeq(list, 1, Len(list) - 1), key),
                    key)

\* Array.prototype.reverse
Reverse(s) == [i \in 1..Len(s) |-> s[Len(s) + 1 - i]]

\* the function of the useMemo that yields filteredAlerts
ApplyView(list, search, key, asc, view) ==
  LET q == ToLowerCase(search)
      found(a) == MatchesSearch(a, q)
      shown(a) == InView(a, view)
      \* Array.prototype.filter
      searched == IF Trim(search) # <<>> THEN SelectSeq(list, found) ELSE list
      viewed == SelectSeq(searched, shown)
      sorted == Sort(viewed, key)
  IN IF asc THEN sorted ELSE Reverse(sorted)

SourceSortedInPlace(list, key, asc) ==
  IF asc THEN Sort(list, key) ELSE Reverse(Sort(list, key))

\* let list = alerts.slice(): the memo filters, sorts and reverses a copy,
\* and the array held in state is after the run what it was before
SourceAfterMemo(list, key, asc) == list

\* the dependency array of that useMemo: [alerts, alertSearch, sortKey, sortAsc]
MemoDeps == <<alerts, alertSearch, sortKey, sortAsc>>

\* the memo after a render with the alerts `list` and the view v: recomputed
\* when a dependency differs from the last render's (fetched is TRUE when
\* setAlerts stored a new array)
Memo(fetched, list, v) ==
  filteredAlerts' =
    IF fetched \/ <<list, v.alertSearch, v.sortKey, v.sortAsc>> # MemoDeps
    THEN ApplyView(list, v.alertSearch, v.sortKey, v.sortAsc, v.alertsView)
    ELSE filteredAlerts

\* ------------------------------------------- page.tsx: view persistence
ViewOf(search, key, asc, view) ==
  [alertSearch |-> search, sortKey |-> key, sortAsc |-> asc,
   alertsView |-> view]

\* useState("") / ("risk") / (false) / ("all")
DefaultView == ViewOf(<<>>, "risk", FALSE, "all")

CurrentView == ViewOf(alertSearch, sortKey, sortAsc, alertsView)

\* What localStorage holds under VIEW_STORAGE_KEY: nothing, text JSON.parse
\* rejects, JSON that is no object, or an object with the fields in `has`.
NoItem == [kind |-> "absent", has |-> {}, o |-> DefaultView]
Unparseable ==
  [kind |-> "garbage", has |-> DOMAIN DefaultView,
   o |-> [DefaultView EXCEPT !.sortKey = "amount", !.sortAsc = TRUE]]
NotAnObject == [kind |-> "scalar", has |-> {}, o |-> DefaultView]

\* JSON.stringify({ alertSearch, sortKey, sortAsc, alertsView })
Stringify(v) == [kind |-> "object", has |-> DOMAIN v, o |-> v]

RestoredDefaults(raw) == DefaultView

RestoredUnchecked(raw) ==
  [f \in DOMAIN DefaultView |->
     IF f \in raw.has THEN raw.o[f] ELSE DefaultView[f]]

\* The restore effect's setters applied to the initial state: JSON.parse
\* throws on text that is no JSON, a value that is no object is skipped, and
\* a field of a stored object replaces the default when it is there and not
\* null.
RestoredView(raw) ==
  IF raw.kind = "object"
  THEN [f \in DOMAIN DefaultView |->
          IF f \in raw.has THEN raw.o[f] ELSE DefaultView[f]]
  ELSE DefaultView

SetView(v) ==
  /\ alertSearch' = v.alertSearch
  /\ sortKey' = v.sortKey
  /\ sortAsc' = v.sortAsc
  /\ alertsView' = v.alertsView

\* the persist effect, run after a render in which one of
\* [alertSearch, sortKey, sortAsc, alertsView] differs from the render
\* before (prev); setItem throws when the storage does not take writes
Persist(prev, v) ==
  storage' = IF storageOk.write /\ v # prev THEN Stringify(v) ELSE storage

\* ------------------------------------------------ page.tsx: exportCSV
\* String.prototype.replace(/x/g, by) for a token x and a text by
RECURSIVE ReplaceAll(_, _, _)
ReplaceAll(s, x, by) ==
  IF s = <<>> THEN <<>>
  ELSE (IF Head(s) = x THEN by ELSE <<Head(s)>>) \o ReplaceAll(Tail(s), x, by)

\* String(n) of a number; `a.amount || ''` makes 0 the empty text
NumberText(n) == IF n = 0 THEN <<>> ELSE <<ToString(n)>>

\* the object exportCSV builds for one alert, as the list of its values in
\* key order
CsvHeaders ==
  <<"alert_id", "customer_id", "rule_id", "amount", "currency", "risk_score",
    "queue", "priority", "status", "description">>
CsvRow(a) ==
  <<a.alert_id, a.customer_id, a.rule_id, NumberText(a.amount), a.currency,
    NumberText(a.risk_score), a.queue, a.priority, a.status,
    ReplaceAll(a.description, "\n", <<" ">>)>>

\* `"${String(v ?? '').replace(/"/g, '""')}"`
CsvField(v) == <<"\"">> \o ReplaceAll(v, "\"", <<"\"", "\"">>) \o <<"\"">>

\* Array.prototype.join(sep) of a list of texts
RECURSIVE Join(_, _)
Join(parts, sep) ==
  IF parts = <<>> THEN <<>>
  ELSE IF Len(parts) = 1 THEN parts[1]
  ELSE parts[1] \o <<sep>> \o Join(Tail(parts), sep)

\* the text of the file exportCSV hands to the browser
CsvOf(list) ==
  LET headers == IF list = <<>>
                 THEN <<"alert_id", "rule_id", "amount", "risk_score">>
                 ELSE CsvHeaders
      head == Join([i \in 1..Len(headers) |-> <<headers[i]>>], ",")
      line(a) == Join([i \in 1..Len(CsvHeaders) |-> CsvField(CsvRow(a)[i])],
                      ",")
  IN Join(<<head>> \o [i \in 1..Len(list) |-> line(list[i])], "\n")

NoDownload == [made |-> FALSE, text |-> <<>>]

\* ------------------------------------------------------------ handles
HandleIds(hs) == {h.id : h \in hs}

\* EventSource.close(): the handle with this id is no longer open
Close(hs, ref) == {h \in hs : h.id # ref}

FreshHandle ==
  CHOOSE i \in 1..(Cardinality(handles) + 2) :
    /\ i \notin HandleIds(handles) \cup {streamRef}
    /\ \A j \in 1..(i - 1) : j \in HandleIds(handles) \cup {streamRef}

Event(op, h, had) ==
  [op |-> op, hid |-> h.id, sid |-> h.sid, via |-> h.via, hadOpen |-> had,
   prev |-> lastEvent.op, sent |-> <<>>]

NoHandle == [id |-> NullRef, sid |-> NoSession, via |-> "none"]

\* ------------------------------------------------- page.tsx: operations
\* What the alerts request may end in: the fetch rejects, the body is no
\* JSON, the JSON carries no alerts array, or it carries one (an empty array
\* leaves the client as a failure does).
AlertResponses ==
  { [kind |-> "rejected", alerts |-> <<>>],
    [kind |-> "notjson", alerts |-> <<>>],
    [kind |-> "noarray", alerts |-> <<>>] }
  \cup { [kind |-> "array", alerts |-> list] : list \in AlertLists \ {<<>>} }

\* Array.isArray(d?.alerts) ? d.alerts : [], and .catch(() => setAlerts([]))
AlertsFrom(resp) == IF resp.kind = "array" THEN resp.alerts ELSE <<>>

LoadAlertsResets(list) ==
  /\ alerts' = list
  /\ state' = InitialState
  /\ UNCHANGED <<loading, sessionId, streamRef, localConnected,
                 localStatus, selectedLogIndex, handles, inFlight, started,
                 issued, ui>>

\* useEffect on backendUrl: fetch /api/alerts, setAlerts(arr) or setAlerts([])
LoadAlerts(list) ==
  /\ alerts' = list
  /\ UNCHANGED <<loading, sessionId, state, streamRef, localConnected,
                 localStatus, selectedLogIndex, handles, inFlight, started,
                 issued, ui>>

ConnectStreamKeepsOld(sid) ==
  /\ handles' = handles \cup {[id |-> FreshHandle, sid |-> sid, via |-> "start"]}
  /\ streamRef' = FreshHandle

\* connectStreamForSession: close the held handle, open one for sid, hold it
ConnectStreamForSession(sid) ==
  /\ handles' = Close(handles, streamRef)
                  \cup {[id |-> FreshHandle, sid |-> sid, via |-> "start"]}
  /\ streamRef' = FreshHandle

\* startForIndex up to `await fetch(.../api/start)`
StartForIndexCall(idx) ==
  /\ Len(alerts) # 0 /\ idx >= 0 /\ idx < Len(alerts)
  /\ started < MaxStarts
  /\ loading' = TRUE
  /\ inFlight' = inFlight + 1
  /\ started' = started + 1
  /\ UNCHANGED <<alerts, sessionId, state, streamRef, localConnected,
                 localStatus, selectedLogIndex, handles, issued, ui>>

\* startForIndex after the response: setSessionId, connect, finally
StartForIndexResolve(sid) ==
  /\ inFlight > 0
  /\ sessionId' = sid
  /\ ConnectStreamForSession(sid)
  /\ loading' = FALSE
  /\ inFlight' = inFlight - 1
  /\ issued' = sid
  /\ UNCHANGED <<alerts, state, localConnected, localStatus,
                 selectedLogIndex, started, ui>>

StartForIndexRejectDrops ==
  /\ inFlight > 0
  /\ loading' = FALSE
  /\ inFlight' = inFlight - 1
  /\ sessionId' = NoSession
  /\ UNCHANGED <<alerts, state, streamRef, localConnected, localStatus,
                 selectedLogIndex, handles, started, issued, ui>>

\* startForIndex when fetch or res.json() rejects: only the finally runs
StartForIndexReject ==
  /\ inFlight > 0
  /\ loading' = FALSE
  /\ inFlight' = inFlight - 1
  /\ UNCHANGED <<alerts, sessionId, state, streamRef, localConnected,
                 localStatus, selectedLogIndex, handles, started, issued, ui>>

OnMessageStartUnpins(h, st) ==
  /\ state' = st
  /\ localConnected' = TRUE
  /\ localStatus' = "Streaming"
  /\ selectedLogIndex' = NullIndex
  /\ ui' = SetUIStatus(ui,
       [connected |-> TRUE, status |-> "Streaming",
        currentStep |-> st.current_step,
        totalSteps |-> OrElse(st.total_steps, "9"),
        streamingAgent |-> st.streaming_agent,
        sessionId |-> h.sid,
        caseId |-> OrElse(st.case_id, Null)])
  /\ UNCHANGED <<alerts, loading, sessionId, streamRef, handles, inFlight,
                 started, issued>>

OnMessageStartMerges(h, st) ==
  /\ state' = [st EXCEPT !.agent_responses =
                 IF Len(@) < Len(state.agent_responses)
                 THEN state.agent_responses ELSE @]
  /\ localConnected' = TRUE
  /\ localStatus' = "Streaming"
  /\ ui' = SetUIStatus(ui,
       [connected |-> TRUE, status |-> "Streaming",
        currentStep |-> st.current_step,
        totalSteps |-> OrElse(st.total_steps, "9"),
        streamingAgent |-> st.streaming_agent,
        sessionId |-> h.sid,
        caseId |-> OrElse(st.case_id, Null)])
  /\ UNCHANGED <<alerts, loading, sessionId, streamRef, selectedLogIndex,
                 handles, inFlight, started, issued>>

\* es.onmessage of connectStreamForSession, body parsed to st
OnMessageStart(h, st) ==
  /\ state' = st
  /\ localConnected' = TRUE
  /\ localStatus' = "Streaming"
  /\ ui' = SetUIStatus(ui,
       [connected |-> TRUE, status |-> "Streaming",
        currentStep |-> st.current_step,
        totalSteps |-> OrElse(st.total_steps, "9"),
        streamingAgent |-> st.streaming_agent,
        sessionId |-> h.sid,
        caseId |-> OrElse(st.case_id, Null)])
  /\ UNCHANGED <<alerts, loading, sessionId, streamRef, selectedLogIndex,
                 handles, inFlight, started, issued>>

\* es.onmessage of reconnect, body parsed to st
OnMessageReconnect(h, st) ==
  /\ state' = st
  /\ localConnected' = TRUE
  /\ localStatus' = "Streaming"
  /\ ui' = SetUIStatus(ui,
       [connected |-> TRUE, status |-> "Streaming",
        currentStep |-> st.current_step,
        totalSteps |-> OrElse(st.total_steps, "9"),
        streamingAgent |-> st.streaming_agent,
        caseId |-> OrElse(st.case_id, Null)])
  /\ UNCHANGED <<alerts, loading, sessionId, streamRef, selectedLogIndex,
                 handles, inFlight, started, issued>>

ParseFailureDisconnects(h) ==
  /\ handles' = Close(handles, h.id)
  /\ localConnected' = FALSE
  /\ localStatus' = "Disconnected"
  /\ UNCHANGED <<alerts, loading, sessionId, state, streamRef,
                 selectedLogIndex, inFlight, started, issued, ui>>

\* es.onmessage when JSON.parse throws: try { ... } catch {}
ParseFailure(h) ==
  UNCHANGED <<alerts, loading, sessionId, state, streamRef, localConnected,
              localStatus, selectedLogIndex, handles, inFlight, started,
              issued, ui>>

OnErrorLeavesOpen(h) ==
  /\ localConnected' = FALSE
  /\ localStatus' = "Disconnected"
  /\ ui' = SetUIStatus(ui, [connected |-> FALSE, status |-> "Disconnected",
                            streamingAgent |-> Undefined])
  /\ UNCHANGED <<alerts, loading, sessionId, state, streamRef,
                 selectedLogIndex, handles, inFlight, started, issued>>

\* es.onerror (both handlers are the same code)
OnError(h) ==
  /\ handles' = Close(handles, h.id)
  /\ localConnected' = FALSE
  /\ localStatus' = "Disconnected"
  /\ ui' = SetUIStatus(ui, [connected |-> FALSE, status |-> "Disconnected",
                            streamingAgent |-> Undefined])
  /\ UNCHANGED <<alerts, loading, sessionId, state, streamRef,
                 selectedLogIndex, inFlight, started, issued>>

StopDropsRef ==
  /\ streamRef' = NullRef
  /\ localConnected' = FALSE
  /\ localStatus' = "Stopped"
  /\ ui' = SetUIStatus(ui, [connected |-> FALSE, status |-> "Stopped",
                            streamingAgent |-> Undefined])
  /\ UNCHANGED <<alerts, loading, sessionId, state, selectedLogIndex,
                 handles, inFlight, started, issued>>

\* stop (the POST /api/end that follows changes no client state)
Stop ==
  /\ handles' = Close(handles, streamRef)
  /\ streamRef' = NullRef
  /\ localConnected' = FALSE
  /\ localStatus' = "Stopped"
  /\ ui' = SetUIStatus(ui, [connected |-> FALSE, status |-> "Stopped",
                            streamingAgent |-> Undefined])
  /\ UNCHANGED <<alerts, loading, sessionId, state, selectedLogIndex,
                 inFlight, started, issued>>

\* reconnect with no session id: if (!sessionId) return
ReconnectNoSession ==
  /\ sessionId = NoSession
  /\ UNCHANGED pageVars

ReconnectAnonymous ==
  /\ sessionId # NoSession
  /\ handles' = Close(handles, streamRef)
       \cup {[id |-> FreshHandle, sid |-> NoSession, via |-> "reconnect"]}
  /\ streamRef' = FreshHandle
  /\ UNCHANGED <<alerts, loading, sessionId, state, localConnected,
                 localStatus, selectedLogIndex, inFlight, started, issued, ui>>

\* reconnect with a session id held
Reconnect ==
  /\ sessionId # NoSession
  /\ handles' = Close(handles, streamRef)
       \cup {[id |-> FreshHandle, sid |-> sessionId, via |-> "reconnect"]}
  /\ streamRef' = FreshHandle
  /\ UNCHANGED <<alerts, loading, sessionId, state, localConnected,
                 localStatus, selectedLogIndex, inFlight, started, issued, ui>>

\* onClick of a log row: setSelectedLogIndex(idx)
SelectLog(idx) ==
  /\ idx >= 0 /\ idx < Len(state.logs)
  /\ selectedLogIndex' = idx
  /\ UNCHANGED <<alerts, loading, sessionId, state, streamRef,
                 localConnected, localStatus, handles, inFlight, started,
                 issued, ui>>

\* --------------------------------------------- the page as a state machine
PageInit ==
  /\ alerts = <<>>
  /\ loading = FALSE
  /\ sessionId = NoSession
  /\ state = InitialState
  /\ streamRef = NullRef
  /\ localConnected = FALSE
  /\ localStatus = "Idle"
  /\ selectedLogIndex = NullIndex
  /\ handles = {}
  /\ inFlight = 0
  /\ started = 0
  /\ issued = 0
  /\ ui = InitialUIStatus
  /\ lastEvent = [op |-> "init", hid |-> NullRef, sid |-> NoSession,
                  via |-> "none", hadOpen |-> FALSE, prev |-> "init",
                  sent |-> <<>>]
  /\ errSeq = [quiet |-> FALSE, late |-> FALSE,
               applied |-> [valid |-> FALSE, snap |-> InitialState]]
  /\ applied = [valid |-> FALSE, snap |-> InitialState]

\* useState(DEFAULT_API_BASE)
DefaultApiBase == "a"

\* the alerts request of the mount has settled and the address is the default
LoadIdle ==
  /\ backendUrl = DefaultApiBase
  /\ alertRequests = <<>>

\* the Home component is on screen
Mounted == phase # "unmounted"
HeldOpen == streamRef \in HandleIds(handles)
Held == IF HeldOpen THEN CHOOSE h \in handles : h.id = streamRef ELSE NoHandle
Resumed == [errSeq EXCEPT !.quiet = FALSE, !.late = FALSE]

DoLoadAlerts ==
  \E resp \in AlertResponses :
    /\ Mounted
    /\ LoadAlerts(AlertsFrom(resp))
    /\ Memo(TRUE, AlertsFrom(resp), CurrentView)
    /\ lastEvent' = Event(IF resp.kind = "array" THEN "alerts"
                          ELSE "alertsFailed", NoHandle, HeldOpen)
    /\ UNCHANGED <<errSeq, applied, revealVars, revealHist, loadVars, alertSearch,
                   sortKey, sortAsc, alertsView, storage, storageOk, phase,
                   triageHist>>

DoStartCall ==
  \E idx \in 0..1 :
    /\ Mounted
    /\ StartForIndexCall(idx)
    /\ lastEvent' = Event("start", NoHandle, HeldOpen)
    /\ errSeq' = Resumed
    /\ UNCHANGED <<applied, revealVars, revealHist, loadVars, triageVars, triageHist>>

DoStartResolve ==
  /\ Mounted
  /\ StartForIndexResolve(issued + 1)
  /\ lastEvent' = Event("startResolve",
       [id |-> FreshHandle, sid |-> issued + 1, via |-> "start"], HeldOpen)
  /\ errSeq' = [errSeq EXCEPT !.late = errSeq.quiet]
  /\ UNCHANGED <<applied, revealVars, revealHist, loadVars, triageVars, triageHist>>

DoStartReject ==
  /\ Mounted
  /\ StartForIndexReject
  /\ lastEvent' = Event("startReject", NoHandle, HeldOpen)
  /\ UNCHANGED <<errSeq, applied, revealVars, revealHist, loadVars, triageVars, triageHist>>

DoReconnect ==
  /\ Mounted
  /\ Reconnect
  /\ lastEvent' = Event("reconnect",
       [id |-> FreshHandle, sid |-> sessionId, via |-> "reconnect"], HeldOpen)
  /\ errSeq' = Resumed
  /\ UNCHANGED <<applied, revealVars, revealHist, loadVars, triageVars, triageHist>>

DoReconnectIdle ==
  /\ Mounted
  /\ ReconnectNoSession
  /\ lastEvent' = Event("reconnectNoop", NoHandle, HeldOpen)
  /\ UNCHANGED <<errSeq, applied, revealVars, revealHist, loadVars, triageVars,
                 triageHist>>

DoStop ==
  /\ Mounted
  /\ Stop
  /\ lastEvent' = Event("stop", Held, HeldOpen)
  /\ UNCHANGED <<errSeq, applied, revealVars, revealHist, loadVars, triageVars, triageHist>>

DoError ==
  \E h \in handles :
    /\ Mounted
    /\ OnError(h)
    /\ lastEvent' = Event("error", h, TRUE)
    /\ errSeq' = [quiet |-> TRUE, late |-> FALSE, applied |-> applied]
    /\ UNCHANGED <<applied, revealVars, revealHist, loadVars, triageVars, triageHist>>

DeliverMalformed ==
  \E h \in handles, m \in Messages :
    /\ Mounted
    /\ ~m.parses
    /\ ParseFailure(h)
    /\ lastEvent' = Event("badmsg", h, TRUE)
    /\ UNCHANGED <<errSeq, applied, revealVars, revealHist, loadVars, triageVars, triageHist>>

DeliverFromStart ==
  \E h \in handles, m \in Messages :
    /\ Mounted
    /\ h.via = "start"
    /\ m.parses
    /\ OnMessageStart(h, m.body)
    /\ lastEvent' = Event("message", h, TRUE)
    /\ applied' = [valid |-> TRUE, snap |-> m.body]
    /\ UNCHANGED <<errSeq, revealVars, revealHist, loadVars, triageVars, triageHist>>

DeliverFromReconnect ==
  \E h \in handles, m \in Messages :
    /\ Mounted
    /\ h.via = "reconnect"
    /\ m.parses
    /\ OnMessageReconnect(h, m.body)
    /\ lastEvent' = Event("message", h, TRUE)
    /\ applied' = [valid |-> TRUE, snap |-> m.body]
    /\ UNCHANGED <<errSeq, revealVars, revealHist, loadVars, triageVars, triageHist>>

DoSelectLog ==
  \E idx \in 0..2 :
    /\ Mounted
    /\ SelectLog(idx)
    /\ lastEvent' = Event("select", NoHandle, HeldOpen)
    /\ UNCHANGED <<errSeq, applied, revealVars, revealHist, loadVars, triageVars, triageHist>>

RevealIdle ==
  /\ fullText = <<>>
  /\ displayed = <<>>
  /\ prevRef = <<>>
  /\ timerRef = NullRef
  /\ timers = {}
  /\ hasCleanup = FALSE
  /\ ticks = 0
  /\ lastChange = [kind |-> "init", p |-> <<>>, shown |-> <<>>,
                   inflight |-> FALSE]
  /\ onlyAppends = TRUE

\* the alert list once the page has started over an empty storage and
\* nothing has been changed
TriageIdle ==
  /\ alertSearch = DefaultView.alertSearch
  /\ sortKey = DefaultView.sortKey
  /\ sortAsc = DefaultView.sortAsc
  /\ alertsView = DefaultView.alertsView
  /\ filteredAlerts = ApplyView(alerts, <<>>, "risk", FALSE, "all")
  /\ storage = Stringify(DefaultView)
  /\ storageOk = [read |-> TRUE, write |-> TRUE]
  /\ phase = "settled"
  /\ download = NoDownload
  /\ storedAtStart = NoItem

Init == PageInit /\ RevealIdle /\ TriageIdle /\ LoadIdle

Next ==
  \/ DoLoadAlerts
  \/ DoStartCall
  \/ DoStartResolve
  \/ DoStartReject
  \/ DoReconnect
  \/ DoReconnectIdle
  \/ DoStop
  \/ DoError
  \/ DeliverMalformed
  \/ DeliverFromStart
  \/ DeliverFromReconnect
  \/ DoSelectLog

Spec == Init /\ [][Next]_vars

\* ------------------------------------ part_003: useIncrementalStream
Alphabet == {"a", "b"}

RECURSIVE TextsOfLen(_)
TextsOfLen(n) ==
  IF n = 0 THEN {<<>>}
  ELSE {Append(t, c) : t \in TextsOfLen(n - 1), c \in Alphabet}

\* values of the hook's argument (undefined reads as the empty text)
Texts == UNION {TextsOfLen(n) : n \in 0..MaxLen}

\* s.slice(0, n)
Slice(s, n) == SubSeq(s, 1, IF n < Len(s) THEN n ELSE Len(s))
\* s.slice(n)
SliceFrom(s, n) == SubSeq(s, n + 1, Len(s))

IsPrefix(p, t) == Len(p) <= Len(t) /\ SubSeq(t, 1, Len(p)) = p
IsStrictExtension(p, t) == IsPrefix(p, t) /\ Len(p) < Len(t)

TimerIds(ts) == {t.id : t \in ts}

ClearIntervalKeeps(ts, ref) == ts

\* window.clearInterval(ref)
ClearInterval(ts, ref) == {t \in ts : t.id # ref}

\* window.setInterval: an id no live timer has
FreshTimer(ts) ==
  CHOOSE i \in 1..(Cardinality(ts) + 1) :
    i \notin TimerIds(ts) /\ \A j \in 1..(i - 1) : j \in TimerIds(ts)

CleanupSkipped == timers

\* the cleanup the previous effect run returned, run before the next effect
CleanupTimers ==
  IF hasCleanup THEN ClearInterval(timers, timerRef) ELSE timers

RevealBaseIsPrev(next, prev) == prev

\* const base = next.slice(0, prev.length)
RevealBase(next, prev) == Slice(next, Len(prev))

AdvanceTwo(i) == i + 2

\* i += 1
Advance(i) == i + 1

\* the effect body, run when fullText has changed to next
Effect(next) ==
  LET prev == prevRef
      live == CleanupTimers
  IN IF Len(next) <= Len(prev)
     THEN /\ prevRef' = next
          /\ displayed' = next
          /\ timers' = live
          /\ hasCleanup' = FALSE
          /\ UNCHANGED timerRef
     ELSE LET base == RevealBase(next, prev)
              added == SliceFrom(next, Len(prev))
              cleared == ClearInterval(live, timerRef)
              id == FreshTimer(cleared)
          IN /\ displayed' = base
             /\ timers' = cleared \cup
                  {[id |-> id, base |-> base, added |-> added, i |-> 0,
                    next |-> next]}
             /\ timerRef' = id
             /\ hasCleanup' = TRUE
             /\ UNCHANGED prevRef

\* the interval callback of timer tm
IntervalTick(tm) ==
  LET i == Advance(tm.i)
      ticked == (timers \ {tm}) \cup {[tm EXCEPT !.i = i]}
  IN /\ displayed' = tm.base \o Slice(tm.added, i)
     /\ IF i >= Len(tm.added)
        THEN /\ timers' = ClearInterval(ticked, timerRef)
             /\ prevRef' = tm.next
             /\ timerRef' = NullRef
        ELSE /\ timers' = ticked
             /\ UNCHANGED <<prevRef, timerRef>>
     /\ UNCHANGED hasCleanup

\* the hook after mount with argument t: state and ref start at t, and the
\* first effect run snaps to the same text
RevealInit ==
  /\ fullText \in Texts
  /\ displayed = fullText
  /\ prevRef = fullText
  /\ timerRef = NullRef
  /\ timers = {}
  /\ hasCleanup = FALSE
  /\ ticks = 0
  /\ lastChange = [kind |-> "init", p |-> <<>>, shown |-> <<>>,
                   inflight |-> FALSE]
  /\ onlyAppends = TRUE

\* the argument changes to next and the effect runs
ChangeText ==
  \E next \in Texts :
    /\ Mounted
    /\ next # fullText
    /\ fullText' = next
    /\ Effect(next)
    /\ ticks' = 0
    /\ lastChange' =
         [kind |-> IF Len(next) <= Len(prevRef) THEN "snap" ELSE "append",
          p |-> fullText, shown |-> displayed, inflight |-> timers # {}]
    /\ onlyAppends' = (onlyAppends /\ IsStrictExtension(fullText, next))
    /\ UNCHANGED <<pageVars, pageHist, triageVars, triageHist, loadVars>>

Tick ==
  \E tm \in timers :
    /\ IntervalTick(tm)
    /\ ticks' = ticks + 1
    /\ UNCHANGED <<fullText, lastChange, onlyAppends, pageVars, pageHist, loadVars,
                   triageVars, triageHist>>

\* ------------------------------------------- leaving the console view
\* Home leaves the screen.  Its effects (page.tsx 79, 87, 199, 213, 345)
\* return no cleanup that closes streamRef.current, so the handle stays as
\* it is; the reveal hook's effect cleanup runs, when the last effect run
\* returned one.
Unmount ==
  /\ phase' = "unmounted"
  /\ timers' = CleanupTimers
  /\ UNCHANGED <<pageVars, fullText, displayed, prevRef, timerRef, hasCleanup,
                 alertSearch, sortKey, sortAsc, alertsView, filteredAlerts,
                 storage, storageOk>>

\* es.onmessage of startForIndex's handle once Home is gone: the setters of
\* Home do nothing, setUIStatus still reaches the provider above the page
OnMessageUnmounted(h, st) ==
  /\ ui' = SetUIStatus(ui,
       [connected |-> TRUE, status |-> "Streaming",
        currentStep |-> st.current_step,
        totalSteps |-> OrElse(st.total_steps, "9"),
        streamingAgent |-> st.streaming_agent,
        sessionId |-> h.sid,
        caseId |-> OrElse(st.case_id, Null)])
  /\ UNCHANGED <<alerts, loading, sessionId, state, streamRef, localConnected,
                 localStatus, selectedLogIndex, handles, inFlight, started,
                 issued>>

DoUnmount ==
  /\ Mounted
  /\ Unmount
  /\ lastEvent' = Event("unmount", NoHandle, HeldOpen)
  /\ UNCHANGED <<errSeq, applied, revealHist, loadVars, triageHist>>

DeliverUnmounted ==
  \E h \in handles, m \in Messages :
    /\ ~Mounted
    /\ h.via = "start"
    /\ m.parses
    /\ OnMessageUnmounted(h, m.body)
    /\ lastEvent' = Event("message", h, TRUE)
    /\ UNCHANGED <<errSeq, applied, revealVars, revealHist, loadVars, triageVars,
                   triageHist>>

InitReveal == PageInit /\ RevealInit /\ TriageIdle /\ LoadIdle

NextReveal == ChangeText \/ Tick

SpecReveal == InitReveal /\ [][NextReveal]_vars

\* the engine under a window that keeps firing the interval of a live timer
SpecRevealFair == SpecReveal /\ WF_vars(Tick)

\* the engine in a view that may be left at any moment
NextRevealTeardown == ChangeText \/ Tick \/ DoUnmount

SpecRevealTeardown == InitReveal /\ [][NextRevealTeardown]_vars

\* ------------------------------------- page.tsx: the latest-response panel
\* fullText || "" and String(displayedLatest || ""): the text of a value
TextOf(val) == IF val.t = "string" THEN val.v ELSE <<>>

\* selectedLogIndex != null &&
\*   selectedLogIndex !== (state.agent_responses?.length || 1) - 1
IsViewingPast(st, idx) ==
  /\ idx # NullIndex
  /\ idx # (IF Len(st.agent_responses) = 0 THEN 1
            ELSE Len(st.agent_responses)) - 1

DisplayedLatestAnimated(st, idx, animated) == Str(animated)

\* isViewingPast ? selectedAgentResponse : animatedLatestRaw
DisplayedLatest(st, idx, animated) ==
  IF IsViewingPast(st, idx) THEN SelectedAgentResponse(st, idx)
  ELSE Str(animated)

\* the text the panel shows
ShownText == TextOf(DisplayedLatest(state, selectedLogIndex, displayed))

\* has the snapshot a payload stored under key k
HasStage(st, k) == \E e \in st.stages : e.key = k
StageOf(st, k) == (CHOOSE e \in st.stages : e.key = k).val

\* the value handed to the JsonBlock of log row idx:
\* state[l] ?? (Array.isArray(state.agent_responses)
\*                ? state.agent_responses[idx] : undefined)
RowDetail(st, idx) ==
  LET l == st.logs[idx + 1]
  IN IF HasStage(st, l) /\ StageOf(st, l).t \notin {"null", "undefined"}
     THEN StageOf(st, l)
     ELSE IF idx < Len(st.agent_responses)
          THEN st.agent_responses[idx + 1]
          ELSE NoValue

\* snapshots of a run whose stages also store their payloads under the name
\* of their log line, or produce null
ViewSnapshots ==
  Snapshots \cup
  { WithStage(Snapshot(<<"intake","risk">>,
                       <<Str(<<"a">>), Str(<<"a","b">>)>>, "2", "5",
                       "RiskAssessor", "case-1"),
              "intake", Str(<<"b">>)),
    Snapshot(<<"intake","risk">>, <<NullPayload, Str(<<"a","b">>)>>, "2",
             "5", "RiskAssessor", "case-1") }

\* the render after a change of state or selection: the hook argument is
\* selectedAgentResponse, and its effect runs when that text has changed
Rerender ==
  LET next == TextOf(SelectedAgentResponse(state', selectedLogIndex'))
  IN IF next # fullText
     THEN /\ fullText' = next
          /\ Effect(next)
          /\ ticks' = 0
          /\ lastChange' =
               [kind |-> IF Len(next) <= Len(prevRef) THEN "snap"
                         ELSE "append",
                p |-> fullText, shown |-> displayed,
                inflight |-> timers # {}]
          /\ onlyAppends' = (onlyAppends /\ IsStrictExtension(fullText, next))
     ELSE UNCHANGED <<revealVars, revealHist>>

\* a session opened by startForIndex, before its first message
ViewInit ==
  /\ alerts = SomeAlerts
  /\ loading = FALSE
  /\ sessionId = 1
  /\ state = InitialState
  /\ streamRef = 1
  /\ localConnected = FALSE
  /\ localStatus = "Idle"
  /\ selectedLogIndex = NullIndex
  /\ handles = {[id |-> 1, sid |-> 1, via |-> "start"]}
  /\ inFlight = 0
  /\ started = 1
  /\ issued = 1
  /\ ui = InitialUIStatus
  /\ lastEvent = [op |-> "startResolve", hid |-> 1, sid |-> 1,
                  via |-> "start", hadOpen |-> FALSE, prev |-> "start",
                  sent |-> <<>>]
  /\ errSeq = [quiet |-> FALSE, late |-> FALSE,
               applied |-> [valid |-> FALSE, snap |-> InitialState]]
  /\ applied = [valid |-> FALSE, snap |-> InitialState]

ViewDeliver ==
  \E h \in handles, st \in ViewSnapshots :
    /\ Mounted
    /\ h.via = "start"
    /\ OnMessageStart(h, st)
    /\ lastEvent' = Event("message", h, TRUE)
    /\ applied' = [valid |-> TRUE, snap |-> st]
    /\ Rerender
    /\ UNCHANGED <<errSeq, triageVars, triageHist, loadVars>>

ViewSelect ==
  \E idx \in 0..2 :
    /\ Mounted
    /\ SelectLog(idx)
    /\ lastEvent' = Event("select", NoHandle, HeldOpen)
    /\ Rerender
    /\ UNCHANGED <<errSeq, applied, triageVars, triageHist, loadVars>>

InitView == ViewInit /\ RevealIdle /\ TriageIdle /\ LoadIdle

NextView == ViewDeliver \/ ViewSelect \/ Tick

SpecView == InitView /\ [][NextView]_vars

\* ------------------------------------ the alert list as a state machine
\* alert collections the backend may return
TriageLists ==
  { <<Alert(<<"1">>, 10, 5, 2, <<"A", "b">>), Alert(<<"2">>, 10, 5, 2, <<>>),
      Alert(<<"3">>, 5, 7, 1, <<"a">>)>>,
    <<Alert(<<"7">>, 799, 0, 0, <<>>), Alert(<<"8">>, 800, 0, 0, <<>>),
      Alert(<<"9">>, 801, 0, 0, <<>>), Alert(<<"0">>, 0, 0, 0, <<>>)>>,
    <<[Alert(<<"A", "\n", "1">>, 900, 0, 0, <<"x", "\"", "\n", "y">>)
         EXCEPT !.queue = <<"Device">>, !.rule_id = <<"rul-tx817">>],
      [Alert(<<"B">>, 0, 3, 0, <<>>)
         EXCEPT !.regulatory_alert_type = <<"Investment">>,
                !.rule_id = <<"RUL-TX230">>]>> }

\* search texts the analyst types
Searches == { <<>>, <<" ">>, <<"a">> }
\* the options of the two <select> elements
SortKeys == {"risk", "amount", "date"}
ViewPresets == {"all", "high", "bec", "investment", "device"}

\* what an earlier run, another program or the user may have left in storage
StoredValues ==
  { NoItem, Unparseable, NotAnObject,
    Stringify(DefaultView),
    Stringify(ViewOf(<<"a">>, "amount", TRUE, "high")),
    Stringify(ViewOf(<<>>, "date", FALSE, "all")),
    Stringify(ViewOf(<<>>, "risk", FALSE, "device")),
    Stringify(ViewOf(<<>>, "bogus", FALSE, "vip")),
    [kind |-> "object", has |-> {"sortKey"},
     o |-> ViewOf(<<>>, "amount", FALSE, "all")] }

\* the two mount effects of the first commit, in source order, and the render
\* their setters cause: restore reads storage and sets the fields, persist
\* writes the values of the first render
MountEffects ==
  /\ phase = "mounting"
  /\ LET v == IF storageOk.read THEN RestoredView(storage) ELSE DefaultView
     IN SetView(v) /\ Memo(FALSE, alerts, v)
  /\ storage' = IF storageOk.write THEN Stringify(DefaultView) ELSE storage
  /\ phase' = "restored"
  /\ UNCHANGED storageOk

\* the persist effect of that second render
SettleEffects ==
  /\ phase = "restored"
  /\ Persist(DefaultView, CurrentView)
  /\ phase' = "settled"
  /\ UNCHANGED <<alertSearch, sortKey, sortAsc, alertsView, filteredAlerts,
                 storageOk>>

\* a handler sets the view to v; the render and the persist effect follow
ChangeView(v) ==
  /\ phase \in {"settled", "running"}
  /\ v # CurrentView
  /\ SetView(v)
  /\ Memo(FALSE, alerts, v)
  /\ Persist(CurrentView, v)
  /\ phase' = "running"
  /\ UNCHANGED storageOk

\* onChange={(e) => setAlertSearch(e.target.value)}
SetAlertSearch(q) == ChangeView([CurrentView EXCEPT !.alertSearch = q])
\* onChange={(e) => setSortKey(e.target.value as any)}
SetSortKey(k) == ChangeView([CurrentView EXCEPT !.sortKey = k])
\* onClick={() => setSortAsc((v) => !v)}
ToggleSortAsc == ChangeView([CurrentView EXCEPT !.sortAsc = ~sortAsc])
\* onChange={(e) => setAlertsView(e.target.value as any)}
SetAlertsView(w) == ChangeView([CurrentView EXCEPT !.alertsView = w])
ResetView == ChangeView(DefaultView)

\* exportCSV: the file handed to the browser
ExportCSV == [made |-> TRUE, text |-> CsvOf(filteredAlerts)]

\* a triage step leaves the session, the reveal engine and the histories
\* of both alone
TriageQuiet ==
  UNCHANGED <<loading, sessionId, state, streamRef, localConnected,
              localStatus, selectedLogIndex, handles, inFlight, started,
              issued, ui, pageHist, revealVars, revealHist, loadVars>>

\* the alerts array after the render that a change of the view causes
MemoSource == alerts' = SourceAfterMemo(alerts, sortKey', sortAsc')

DoMount ==
  /\ MountEffects
  /\ download' = NoDownload
  /\ UNCHANGED storedAtStart
  /\ MemoSource
  /\ TriageQuiet

DoSettle ==
  /\ SettleEffects
  /\ download' = NoDownload
  /\ UNCHANGED storedAtStart
  /\ UNCHANGED alerts
  /\ TriageQuiet

DoSearch ==
  \E q \in Searches :
    /\ SetAlertSearch(q)
    /\ download' = NoDownload
    /\ UNCHANGED storedAtStart
    /\ MemoSource
    /\ TriageQuiet

DoSortKey ==
  \E k \in SortKeys :
    /\ SetSortKey(k)
    /\ download' = NoDownload
    /\ UNCHANGED storedAtStart
    /\ MemoSource
    /\ TriageQuiet

DoToggleSort ==
  /\ ToggleSortAsc
  /\ download' = NoDownload
  /\ UNCHANGED storedAtStart
  /\ MemoSource
  /\ TriageQuiet

DoAlertsView ==
  \E w \in ViewPresets :
    /\ SetAlertsView(w)
    /\ download' = NoDownload
    /\ UNCHANGED storedAtStart
    /\ MemoSource
    /\ TriageQuiet

DoResetView ==
  /\ ResetView
  /\ download' = NoDownload
  /\ UNCHANGED storedAtStart
  /\ MemoSource
  /\ TriageQuiet

DoExport ==
  /\ phase \in {"settled", "running"}
  /\ download' = ExportCSV
  /\ UNCHANGED <<triageVars, storedAtStart>>
  /\ UNCHANGED alerts
  /\ TriageQuiet

DoFetch ==
  \E list \in TriageLists :
    /\ phase \in {"settled", "running"}
    /\ LoadAlerts(list)
    /\ Memo(TRUE, list, CurrentView)
    /\ lastEvent' = Event("alerts", NoHandle, HeldOpen)
    /\ download' = NoDownload
    /\ UNCHANGED <<alertSearch, sortKey, sortAsc, alertsView, storage,
                   storageOk, phase, storedAtStart, errSeq, applied,
                   revealVars, revealHist, loadVars>>

\* the page at its first render, over whatever the storage holds
TriageInit ==
  /\ alertSearch = DefaultView.alertSearch
  /\ sortKey = DefaultView.sortKey
  /\ sortAsc = DefaultView.sortAsc
  /\ alertsView = DefaultView.alertsView
  /\ filteredAlerts = <<>>
  /\ storage \in StoredValues
  /\ storageOk \in [read : BOOLEAN, write : BOOLEAN]
  /\ phase = "mounting"
  /\ download = NoDownload
  /\ storedAtStart = storage

InitAlerts == PageInit /\ RevealIdle /\ TriageInit /\ LoadIdle

NextAlerts ==
  \/ DoMount
  \/ DoSettle
  \/ DoSearch
  \/ DoSortKey
  \/ DoToggleSort
  \/ DoAlertsView
  \/ DoResetView
  \/ DoExport
  \/ DoFetch

SpecAlerts == InitAlerts /\ [][NextAlerts]_vars

\* --------------------------------------------------- page.tsx: sendReply
\* texts the analyst may submit
ReplyTexts == { <<>>, <<" ", "\t">>, <<"o", "k">>, <<" ", "o", "k">> }

ReplyRequestsUnguarded(text) == <<[sid |-> sessionId, text |-> text]>>

\* the requests sendReply(text) issues: none when there is no session id or
\* the text trims to nothing, else one POST /api/user_reply/${sessionId}
ReplyRequests(text) ==
  IF sessionId = NoSession \/ Trim(text) = <<>> THEN <<>>
  ELSE <<[sid |-> sessionId, text |-> text]>>

\* sendReply writes no client state
SendReply(text) == UNCHANGED pageVars

DoSendReply ==
  \E text \in ReplyTexts :
    /\ Mounted
    /\ SendReply(text)
    /\ lastEvent' =
         [Event(IF Trim(text) = <<>> THEN "replyBlank" ELSE "reply",
                NoHandle, HeldOpen)
            EXCEPT !.sent = ReplyRequests(text)]
    /\ UNCHANGED <<errSeq, applied, revealVars, revealHist, loadVars, triageVars,
                   triageHist>>

\* ------------------------------------------ page.tsx: Clear and Finalize
ClearResetsStatus ==
  /\ state' = InitialState
  /\ ui' = InitialUIStatus
  /\ UNCHANGED <<alerts, loading, sessionId, streamRef, localConnected,
                 localStatus, selectedLogIndex, handles, inFlight, started,
                 issued>>

\* onClick of Clear: setState({logs: [], agent_responses: [],
\* dialogue_history: []})
Clear ==
  /\ state' = InitialState
  /\ UNCHANGED <<alerts, loading, sessionId, streamRef, localConnected,
                 localStatus, selectedLogIndex, handles, inFlight, started,
                 issued, ui>>

\* finalizeNow / Finalize onClick: a POST whose outcome is ignored
Finalize == UNCHANGED pageVars

\* One step of the page that records no history: the operation Op alone.
PageStep(Op) ==
  /\ Mounted
  /\ Op
  /\ UNCHANGED <<pageHist, revealVars, revealHist, loadVars, triageVars, triageHist>>

\* messages of a session with one and then two finished stages
BroadcastSnapshots ==
  { Snapshot(<<"intake">>, <<Str(<<"a","b">>)>>, "1", Undefined,
             "IntakeAgent", Undefined),
    Snapshot(<<"intake","risk">>,
             <<Str(<<"a","b">>), Obj(<<"{","}">>)>>, "2", "5",
             "RiskAssessor", "case-1") }

StepLoadAlerts ==
  \E resp \in AlertResponses :
    /\ Mounted
    /\ LoadAlerts(AlertsFrom(resp))
    /\ Memo(TRUE, AlertsFrom(resp), CurrentView)
    /\ UNCHANGED <<pageHist, revealVars, revealHist, loadVars, alertSearch, sortKey,
                   sortAsc, alertsView, storage, storageOk, phase, triageHist>>
StepMessage ==
  \E h \in handles, st \in BroadcastSnapshots :
    h.via = "start" /\ PageStep(OnMessageStart(h, st))
StepError == \E h \in handles : PageStep(OnError(h))
StepStop == PageStep(Stop)
StepSelectLog == \E idx \in 0..1 : PageStep(SelectLog(idx))
StepClear == PageStep(Clear)
StepSendReply == \E text \in ReplyTexts : PageStep(SendReply(text))
StepFinalize == PageStep(Finalize)

\* the console with an open session and every control of the page
InitBroadcast == ViewInit /\ RevealIdle /\ TriageIdle /\ LoadIdle

NextBroadcast ==
  \/ StepLoadAlerts
  \/ StepMessage
  \/ StepError
  \/ StepStop
  \/ StepSelectLog
  \/ StepClear
  \/ StepSendReply
  \/ StepFinalize
  \/ DoSearch
  \/ DoSortKey
  \/ DoToggleSort
  \/ DoAlertsView
  \/ DoResetView
  \/ DoExport

SpecBroadcast == InitBroadcast /\ [][NextBroadcast]_vars

\* loading alerts, starting and stopping sessions, and replying
NextChat ==
  \/ DoLoadAlerts
  \/ DoStartCall
  \/ DoStartResolve
  \/ DoStartReject
  \/ DoStop
  \/ DoSendReply

SpecChat == Init /\ [][NextChat]_vars

\* ----------------------------------- page.tsx: a message whose JSON is null
\* JSON.parse("null"): the value null stored by setState(st); no field of it
\* can be read
NullState == Snapshot(<<>>, <<>>, Null, Null, Null, Null)

\* es.onmessage (either handler) on the body "null": setState(null),
\* setLocalConnected(true) and setLocalStatus("Streaming") are queued, then
\* st.current_step in the argument of setUIStatus throws a TypeError that
\* the catch swallows, so setUIStatus is never called
OnMessageNull(h) ==
  /\ state' = NullState
  /\ localConnected' = TRUE
  /\ localStatus' = "Streaming"
  /\ UNCHANGED <<alerts, loading, sessionId, streamRef, selectedLogIndex,
                 handles, inFlight, started, issued, ui>>

\* the render that follows reads state.agent_responses of null and throws,
\* and React takes Home off the screen
DeliverNull ==
  \E h \in handles :
    /\ Mounted
    /\ OnMessageNull(h)
    /\ lastEvent' = Event("message", h, TRUE)
    /\ applied' = [valid |-> TRUE, snap |-> NullState]
    /\ phase' = "unmounted"
    /\ timers' = CleanupTimers
    /\ UNCHANGED <<errSeq, fullText, displayed, prevRef, timerRef,
                   hasCleanup, revealHist, loadVars, alertSearch, sortKey, sortAsc,
                   alertsView, filteredAlerts, storage, storageOk,
                   triageHist>>

\* an open session and everything its channel can deliver
NextMessages ==
  \/ DeliverFromStart
  \/ DeliverFromReconnect
  \/ DeliverMalformed
  \/ DeliverNull
  \/ DoError
  \/ DoStop
  \/ DoReconnect

SpecMessages == InitBroadcast /\ [][NextMessages]_vars

\* -------------------------------------- page.tsx: start calls in flight
\* startForIndex after a response whose JSON has no session_id (fetch
\* resolves on an HTTP error status as well, and an error body is JSON
\* without that field): setSessionId(undefined), connectStreamForSession
\* (undefined), which opens the stream of the path /api/stream/undefined,
\* finally
StartForIndexResolveNoId ==
  /\ inFlight > 0
  /\ sessionId' = NoSession
  /\ ConnectStreamForSession(NoSession)
  /\ loading' = FALSE
  /\ inFlight' = inFlight - 1
  /\ UNCHANGED <<alerts, state, localConnected, localStatus,
                 selectedLogIndex, started, issued, ui>>

DoStartResolveNoId ==
  /\ Mounted
  /\ StartForIndexResolveNoId
  /\ lastEvent' = Event("startResolve",
       [id |-> FreshHandle, sid |-> NoSession, via |-> "start"],
       HeldOpen)
  /\ errSeq' = [errSeq EXCEPT !.late = errSeq.quiet]
  /\ UNCHANGED <<applied, revealVars, revealHist, loadVars, triageVars, triageHist>>

\* overlapping start calls, their outcomes, stop, reconnect and messages
NextStart ==
  \/ DoLoadAlerts
  \/ DoStartCall
  \/ DoStartResolve
  \/ DoStartResolveNoId
  \/ DoStartReject
  \/ DoReconnect
  \/ DoReconnectIdle
  \/ DoStop
  \/ DeliverFromStart

SpecStart == Init /\ [][NextStart]_vars

\* ------------------------------- page.tsx: the alerts effect per address
\* addresses the analyst may type into the Backend input
BackendUrls == {"a", "b", "c"}

\* alert requests awaiting their response at one time
MaxRequests == 3

\* what the backend behind an address answers to GET /api/alerts: two
\* backends with different alerts, and an address nobody listens on
BackendAnswer(u) ==
  CASE u = "a" -> [kind |-> "array", alerts |-> SomeAlerts]
    [] u = "b" -> [kind |-> "array", alerts |-> <<SomeAlerts[2]>>]
    [] OTHER -> [kind |-> "rejected", alerts |-> <<>>]

\* s without its i-th element
RemoveAt(s, i) == SubSeq(s, 1, i - 1) \o SubSeq(s, i + 1, Len(s))

\* onChange of the Backend input: setBackendUrl(u); the effect on
\* [backendUrl] runs again and sends a request to the new address, and the
\* requests sent before stay in flight
SetBackendUrl(u) ==
  /\ u # backendUrl
  /\ Len(alertRequests) < MaxRequests
  /\ backendUrl' = u
  /\ alertRequests' = Append(alertRequests, u)
  /\ UNCHANGED pageVars

\* the i-th request in flight settles: setAlerts(arr) or setAlerts([])
SettleAlerts(i) ==
  /\ LoadAlerts(AlertsFrom(BackendAnswer(alertRequests[i])))
  /\ alertRequests' = RemoveAt(alertRequests, i)
  /\ UNCHANGED backendUrl

DoSetBackendUrl ==
  \E u \in BackendUrls :
    /\ Mounted
    /\ SetBackendUrl(u)
    /\ lastEvent' = Event("backendUrl", NoHandle, HeldOpen)
    /\ UNCHANGED <<errSeq, applied, revealVars, revealHist, triageVars,
                   triageHist>>

DoSettleAlerts ==
  \E i \in 1..Len(alertRequests) :
    /\ Mounted
    /\ SettleAlerts(i)
    /\ Memo(TRUE, AlertsFrom(BackendAnswer(alertRequests[i])), CurrentView)
    /\ lastEvent' = Event("alerts", NoHandle, HeldOpen)
    /\ UNCHANGED <<errSeq, applied, revealVars, revealHist, alertSearch,
                   sortKey, sortAsc, alertsView, storage, storageOk, phase,
                   triageHist>>

\* the page after its first commit: the request of the mount is in flight
LoadInit ==
  /\ backendUrl = DefaultApiBase
  /\ alertRequests = <<DefaultApiBase>>

InitBackend == PageInit /\ RevealIdle /\ TriageIdle /\ LoadInit

NextBackend == DoSetBackendUrl \/ DoSettleAlerts

SpecBackend == InitBackend /\ [][NextBackend]_vars

\* ------------------------------------------------------------ properties

\* C1: in every reachable state at most one push-channel handle is open,
\* and an open handle is the one the page holds in streamRef: start and
\* reconnect close the held handle in the step that opens the new one.
C1_AtMostOneOpenHandle ==
  /\ Cardinality(handles) <= 1
  /\ HandleIds(handles) \subseteq {streamRef}

\* two start calls were in flight at once; the second response replaced the
\* handle the first had opened
C1_Witness ==
  /\ lastEvent.op = "startResolve"
  /\ lastEvent.prev = "startResolve"
  /\ lastEvent.hadOpen
  /\ Cardinality(handles) = 1

\* C2 as stated: after a transport error no handle is open and no snapshot
\* is applied until start or reconnect is invoked after the error.
C2_QuietUntilInvoked ==
  errSeq.quiet => handles = {} /\ applied = errSeq.applied

\* C2 as amended: a transport error closes the handle and marks the session
\* disconnected with the streaming agent cleared; from then on no handle is
\* open and no snapshot is applied until start or reconnect is invoked or a
\* start call that was in flight at the error resolves.
C2_NoRetryAfterError ==
  /\ lastEvent.op = "error" =>
       /\ lastEvent.hid \notin HandleIds(handles)
       /\ ~localConnected
       /\ localStatus = "Disconnected"
       /\ ui.connected = FALSE
       /\ ui.status = "Disconnected"
       /\ ui.streamingAgent = Undefined
  /\ errSeq.quiet /\ ~errSeq.late =>
       handles = {} /\ applied = errSeq.applied

\* the held handle failed after it had delivered a snapshot, and the page
\* has since handled a further event without a start or reconnect
C2_Witness ==
  /\ errSeq.quiet /\ ~errSeq.late
  /\ errSeq.applied.valid
  /\ lastEvent.prev = "error"
  /\ lastEvent.op \in {"stop", "select", "alerts"}

\* C3: the stored snapshot is the most recently applied one, whole; with no
\* index selected the latest agent response is the display form of the last
\* entry of its stage-output list (nothing when the list is empty).
C3_LiveViewIsLatest ==
  applied.valid =>
    /\ state = applied.snap
    /\ selectedLogIndex = NullIndex =>
         LET ar == applied.snap.agent_responses
             shown == SelectedAgentResponse(state, selectedLogIndex)
         IN IF ar = <<>> THEN shown = NoValue
            ELSE IF ar[Len(ar)].t = "string" THEN shown = ar[Len(ar)]
            ELSE IF ar[Len(ar)].t = "object" THEN shown = Str(ar[Len(ar)].v)
            ELSE shown = NoValue

\* a snapshot with a shorter stage-output list was applied after another
\* snapshot, with nothing selected
C3_Witness ==
  /\ applied.valid
  /\ selectedLogIndex = NullIndex
  /\ lastEvent.op = "message" /\ lastEvent.prev = "message"
  /\ state.agent_responses = <<Str(<<"a">>)>>

\* C4: a message whose body does not parse changes neither the stored
\* snapshot nor the connection status nor the Status Broadcast nor the open
\* handles, and a well-formed message that follows it on the same handle is
\* applied.
C4_MalformedDropped ==
  [][ /\ lastEvent'.op = "badmsg" =>
           /\ state' = state
           /\ localConnected' = localConnected
           /\ localStatus' = localStatus
           /\ ui' = ui
           /\ handles' = handles
           /\ streamRef' = streamRef
      /\ (lastEvent.op = "badmsg" /\ lastEvent'.op = "message") =>
           /\ lastEvent'.hid = lastEvent.hid
           /\ state' = applied'.snap
           /\ localConnected'
    ]_vars

\* a well-formed message was applied right after a malformed one
C4_Witness ==
  /\ lastEvent.op = "message"
  /\ lastEvent.prev = "badmsg"
  /\ state = applied.snap
  /\ state # InitialState

\* C5: after every processed message the Status Broadcast holds
\* connected=true, "Streaming", the snapshot's step and agent, and the
\* session id of the channel that delivered the message.
C5_BroadcastAfterMessage ==
  lastEvent.op = "message" =>
    /\ ui.connected = TRUE
    /\ ui.status = "Streaming"
    /\ ui.currentStep = state.current_step
    /\ ui.streamingAgent = state.streaming_agent
    /\ ui.sessionId = lastEvent.sid

\* C6: stop leaves no handle open and no handle held, sets disconnected /
\* "Stopped" with the streaming agent cleared, and a stop that follows a
\* stop changes nothing of the page.
C6_StopIdempotent ==
  [][ lastEvent'.op = "stop" =>
        /\ handles' = {}
        /\ streamRef' = NullRef
        /\ ~localConnected'
        /\ localStatus' = "Stopped"
        /\ ui'.connected = FALSE
        /\ ui'.status = "Stopped"
        /\ ui'.streamingAgent = Undefined
        /\ lastEvent.op = "stop" => pageVars' = pageVars
    ]_vars

\* stop ran twice in a row on a started session
C6_Witness ==
  /\ lastEvent.op = "stop"
  /\ lastEvent.prev = "stop"
  /\ sessionId # NoSession
  /\ ui.currentStep # Undefined

\* C7: when the text changes from p, fully displayed, to a strict extension
\* of p, the engine shows p and then one more character per tick: after k
\* ticks exactly the first Len(p)+k characters, the timer running until the
\* Len(s)-th tick and not after it.
C7_AppendRevealsOnePerTick ==
  (/\ lastChange.kind # "init"
   /\ IsStrictExtension(lastChange.p, fullText)
   /\ lastChange.shown = lastChange.p) =>
     /\ ticks <= Len(fullText) - Len(lastChange.p)
     /\ displayed = SubSeq(fullText, 1, Len(lastChange.p) + ticks)
     /\ (timers # {}) <=> (ticks < Len(fullText) - Len(lastChange.p))

\* a two-character append to a displayed non-empty text, fully revealed by
\* its second tick
C7_Witness ==
  /\ lastChange.kind # "init"
  /\ IsStrictExtension(lastChange.p, fullText)
  /\ lastChange.shown = lastChange.p
  /\ lastChange.p # <<>>
  /\ Len(fullText) = Len(lastChange.p) + 2
  /\ ticks = 2
  /\ displayed = fullText

\* C8: a new text no longer than the recorded previous text is displayed in
\* full at once, with no tick, and no timer is left running, also when a
\* reveal was in flight.
C8_ShrinkSnaps ==
  lastChange.kind = "snap" =>
    /\ displayed = fullText
    /\ timers = {}
    /\ ticks = 0

\* the text shrank while a reveal was in flight
C8_Witness ==
  /\ lastChange.kind = "snap"
  /\ lastChange.inflight
  /\ lastChange.shown # fullText
  /\ Len(fullText) < Len(lastChange.p)

\* C9: while the text changes only by strict appends, the displayed length
\* never decreases, over changes and ticks alike.
C9_DisplayedNeverShrinks ==
  [][onlyAppends' => Len(displayed') >= Len(displayed)]_vars

\* C10: the displayed text is a prefix of the current full text.
C10_DisplayedIsPrefix == IsPrefix(displayed, fullText)

\* a longer text that does not extend the previous one is being revealed
C10_Witness ==
  /\ lastChange.kind = "append"
  /\ ~IsPrefix(lastChange.p, fullText)
  /\ lastChange.p # <<>>
  /\ ticks = 1
  /\ displayed = fullText

C12_KeyedThenPositional ==
  LET i == selectedLogIndex
      sel == SelectedAgentResponse(state, i)
      past == IsViewingPast(state, i) /\ i < Len(state.logs)
  IN /\ (past /\ HasStage(state, state.logs[i + 1]))
          => sel = Render(StageOf(state, state.logs[i + 1]))
     /\ (past /\ ~HasStage(state, state.logs[i + 1])
               /\ i < Len(state.agent_responses))
          => sel = Render(state.agent_responses[i + 1])
     /\ i = NullIndex => sel = Render(LatestOf(state))

\* C13: selecting a historical index whose stage payload is not a string
\* yields the JSON text of that payload as the display value, for every such
\* payload (null included): never an empty or undefined value.
C13_NonStringAsJson ==
  LET i == selectedLogIndex
      sel == SelectedAgentResponse(state, i)
  IN (/\ IsViewingPast(state, i)
      /\ i < Len(state.agent_responses)
      /\ state.agent_responses[i + 1].t # "string")
     => LET val == state.agent_responses[i + 1]
            json == IF val.t = "null" THEN <<"n", "u", "l", "l">> ELSE val.v
        IN /\ sel = Str(json)
           /\ sel # NoValue
           /\ TextOf(sel) # <<>>

\* C14: after any sequence of changes to the search term, sort key, sort
\* direction and view preset, the alert list shown and exported is applyView
\* of the current view settings over the loaded alerts; a change of one
\* field alone, the view preset included, is reflected.
C14_ShownIsApplyView ==
  LET fresh == ApplyView(alerts, alertSearch, sortKey, sortAsc, alertsView)
  IN /\ phase \in {"settled", "running"} => filteredAlerts = fresh
     /\ download.made => download.text = CsvOf(fresh)

\* C15: sorting by risk, amount or date keeps alerts with equal keys in
\* their original relative order, ascending and descending alike.
C15_StableSort ==
  LET shown == ApplyView(alerts, alertSearch, sortKey, sortAsc, alertsView)
      Pos(a) == CHOOSE k \in 1..Len(alerts) : alerts[k] = a
  IN (filteredAlerts = shown /\ sortKey \in SortKeys)
     => \A i, j \in 1..Len(filteredAlerts) :
          (i < j /\ Compare(filteredAlerts[i], filteredAlerts[j], sortKey) = 0)
            => Pos(filteredAlerts[i]) < Pos(filteredAlerts[j])

\* C16: in the exported CSV every data field is wrapped in double quotes,
\* every quote inside a field is doubled, and no data row holds a raw
\* newline, whichever field the text comes from.
C16_CsvWellFormed ==
  LET RECURSIVE Scan(_, _)
      Scan(s, mode) ==
        IF s = <<>> THEN mode = "closed"
        ELSE LET c == Head(s)
                 rest == Tail(s)
             IN CASE mode = "start" -> c = "\"" /\ Scan(rest, "open")
                  [] mode = "open" ->
                       IF c = "\"" THEN Scan(rest, "closed")
                       ELSE c # "\n" /\ Scan(rest, "open")
                  [] OTHER ->
                       \/ c = "\"" /\ Scan(rest, "open")
                       \/ c \in {",", "\n"} /\ Scan(rest, "start")
      RECURSIVE Rows(_)
      Rows(s) == IF s = <<>> THEN <<>>
                 ELSE IF Head(s) = "\n" THEN Tail(s) ELSE Rows(Tail(s))
      NewLines(s) == Cardinality({i \in 1..Len(s) : s[i] = "\n"})
  IN download.made
     => /\ Rows(download.text) # <<>> => Scan(Rows(download.text), "start")
        /\ NewLines(download.text) = Len(filteredAlerts)

\* C17: a stored sort key or view preset that is not in its enumerated set
\* is discarded at startup: after startup the sort key is one of risk,
\* amount, date and the preset one of all, high, bec, investment, device.
C17_StartupValidates ==
  phase \in {"settled", "running"}
    => sortKey \in SortKeys /\ alertsView \in ViewPresets

C19_FaultGivesDefaults ==
  (/\ phase = "settled"
   /\ \/ storedAtStart.kind \in {"garbage", "scalar"}
      \/ ~storageOk.read
      \/ ~storageOk.write)
  => CurrentView = DefaultView

\* C19: when the stored value is no JSON or no object, or reading fails,
\* startup ends with the default view settings; when writing fails, startup
\* ends with the settings that were read and the storage as it was; the
\* startup steps are never blocked by the fault.
C19_FaultTolerated ==
  /\ (phase = "settled"
       /\ (storedAtStart.kind \in {"garbage", "scalar"} \/ ~storageOk.read))
      => CurrentView = DefaultView
  /\ (phase = "settled" /\ ~storageOk.write)
      => /\ storage = storedAtStart
         /\ CurrentView = IF storageOk.read THEN RestoredView(storedAtStart)
                          ELSE DefaultView
  /\ phase = "mounting" => ENABLED DoMount
  /\ phase = "restored" => ENABLED DoSettle

\* startup has settled over a stored text that is no JSON
C19_Witness ==
  /\ phase = "settled"
  /\ storedAtStart.kind = "garbage"
  /\ storageOk.read
  /\ CurrentView = DefaultView

\* C20: with the preset "high" the filtered list holds exactly the loaded
\* alerts whose risk score is at least 800 (a missing score counts as 0),
\* and with the preset "all" every loaded alert.
C20_HighPreset ==
  LET Range(l) == {l[i] : i \in 1..Len(l)}
  IN (phase \in {"settled", "running"} /\ Trim(alertSearch) = <<>>)
     => /\ alertsView = "high"
             => Range(filteredAlerts) =
                  {a \in Range(alerts) : a.risk_score >= 800}
        /\ alertsView = "all" => Range(filteredAlerts) = Range(alerts)

\* C23: setUIStatus changes exactly the fields named in its argument: a stop
\* or error update (connected, status, streamingAgent) keeps the current
\* step, total steps, session id and case id that earlier messages set, and
\* a message handled by the reconnect handler, which names no session id,
\* keeps the session id.
C23_PartialUpdateMerges ==
  [][ /\ lastEvent'.op \in {"stop", "error"} =>
           /\ ui'.connected = FALSE
           /\ ui'.status \in {"Stopped", "Disconnected"}
           /\ ui'.streamingAgent = Undefined
           /\ ui'.currentStep = ui.currentStep
           /\ ui'.totalSteps = ui.totalSteps
           /\ ui'.sessionId = ui.sessionId
           /\ ui'.caseId = ui.caseId
      /\ (lastEvent'.op = "message" /\ lastEvent'.via = "reconnect") =>
           ui'.sessionId = ui.sessionId ]_vars

\* a stop or an error after messages have set step, session id and case id
C23_Witness ==
  /\ lastEvent.op \in {"stop", "error"}
  /\ lastEvent.prev = "message"
  /\ ui.currentStep # Undefined
  /\ ui.totalSteps # Undefined
  /\ ui.sessionId # NoSession
  /\ ui.caseId \notin {Undefined, Null}
  /\ ~ui.connected

\* C21: when the alerts request fails or its response carries no alerts
\* array, the alert collection becomes the empty list and nothing else of the
\* client changes: session id, open handle, stored snapshot, connection
\* status and Status Broadcast are as before.
C21_FailedLoadEmptiesOnly ==
  [][ lastEvent'.op = "alertsFailed" =>
        /\ alerts' = <<>>
        /\ UNCHANGED <<loading, sessionId, state, streamRef, localConnected,
                       localStatus, selectedLogIndex, handles, inFlight,
                       started, issued, ui>> ]_vars

\* a failed load while a session streams and a snapshot is stored
C21_Witness ==
  /\ lastEvent.op = "alertsFailed"
  /\ lastEvent.prev = "message"
  /\ alerts = <<>>
  /\ sessionId # NoSession
  /\ HeldOpen
  /\ state # InitialState
  /\ localConnected

\* C30: reconnect opens its handle for the session id the page holds and
\* keeps that id, also after a stop or a transport error, which keep the
\* session id; reconnect with no session id opens no handle and changes
\* nothing.
C30_ReconnectSameSession ==
  [][ /\ lastEvent'.op = "reconnect" =>
           /\ sessionId # NoSession
           /\ sessionId' = sessionId
           /\ \E h \in handles' :
                /\ h.id = streamRef'
                /\ h.sid = sessionId
                /\ handles' = {h}
      /\ lastEvent'.op \in {"stop", "error"} => sessionId' = sessionId
      /\ lastEvent'.op = "reconnectNoop" =>
           /\ sessionId = NoSession
           /\ handles' = {}
           /\ pageVars' = pageVars ]_vars

\* a reconnect right after a stop, for the session that was stopped
C30_Witness ==
  /\ lastEvent.op = "reconnect"
  /\ lastEvent.prev = "stop"
  /\ ~lastEvent.hadOpen
  /\ sessionId # NoSession
  /\ \E h \in handles : h.id = streamRef /\ h.sid = sessionId

\* C22: sendReply issues no request when the page holds no session id or the
\* text is empty or only whitespace; otherwise it posts exactly one reply,
\* addressed to the session id the page holds.
C22_ReplyOnlyToSession ==
  lastEvent.op \in {"reply", "replyBlank"} =>
    IF sessionId = NoSession \/ lastEvent.op = "replyBlank"
    THEN lastEvent.sent = <<>>
    ELSE /\ Len(lastEvent.sent) = 1
         /\ lastEvent.sent[1].sid = sessionId
         /\ Trim(lastEvent.sent[1].text) # <<>>

\* a reply posted to the second session the page has started
C22_Witness ==
  /\ lastEvent.op = "reply"
  /\ Len(lastEvent.sent) = 1
  /\ sessionId = 2
  /\ lastEvent.sent[1].sid = 2


\* C25: an engine instance has at most one reveal timer; the timer in flight
\* is the one its ref names and has letters left to reveal, so a replaced or
\* completed timer is gone; once the owning view is torn down no timer is
\* left, and so no tick writes to the displayed buffer afterwards.
C25_OneRevealTimer ==
  /\ Cardinality(timers) <= 1
  /\ \A tm \in timers : tm.id = timerRef /\ tm.i < Len(tm.added)
  /\ ~Mounted => timers = {} /\ ~ENABLED Tick

\* the view was torn down while a reveal was in flight
C25_Witness ==
  /\ ~Mounted
  /\ timerRef # NullRef
  /\ displayed # fullText
  /\ timers = {}


\* ------------------------------------------------ sessions and teardown
\* a session is started, streams, is stopped, and the view is left
NextTeardown ==
  \/ DoLoadAlerts
  \/ DoStartCall
  \/ DoStartResolve
  \/ DoStartReject
  \/ DoStop
  \/ DeliverFromStart
  \/ DoUnmount
  \/ DeliverUnmounted

SpecTeardown == Init /\ [][NextTeardown]_vars

\* C24: after the console view is torn down no handle remains open, and no
\* later message changes the stored snapshot or the status broadcast.
C24_TeardownCloses ==
  [][ /\ ~Mounted' => handles' = {}
      /\ ~Mounted => state' = state /\ ui' = ui ]_vars


\* C26: the record of the previous full text is brought up to date when the
\* text changes again during a reveal (to the text it replaces, the text
\* shown or the new text) and is set to the full text when the reveal
\* completes; a tick that leaves the reveal running does not touch it.
C26_PrevTextUpdates ==
  [][ /\ (fullText' # fullText /\ timers # {}) =>
           prevRef' \in {fullText, displayed, fullText'}
      /\ (fullText' = fullText /\ timers # {} /\ timers' = {} /\ Mounted') =>
           prevRef' = fullText
      /\ (fullText' = fullText /\ timers' # {}) => prevRef' = prevRef ]_vars


\* C27: the view is historical exactly when an index is selected and it is
\* not the newest index of the snapshot's log lines, whatever the lengths of
\* the log lines and of the stage outputs are.
C27_PastIffNotNewestLog ==
  IsViewingPast(state, selectedLogIndex) <=>
    (selectedLogIndex # NullIndex /\ selectedLogIndex # Len(state.logs) - 1)


\* C28: applying a snapshot leaves the selection as it is; the selection
\* changes only in a step that is the analyst's click on a log row.
C28_SnapshotKeepsSelection ==
  [][ /\ lastEvent'.op = "message" => selectedLogIndex' = selectedLogIndex
      /\ selectedLogIndex' # selectedLogIndex => lastEvent'.op = "select"
    ]_vars

\* two snapshots were applied after a row was pinned, and the row is still
\* there
C28_Witness ==
  /\ selectedLogIndex # NullIndex
  /\ selectedLogIndex < Len(state.logs)
  /\ lastEvent.op = "message"
  /\ lastEvent.prev = "message"


\* C29: when a snapshot lengthens the log past a pinned newest row, the view
\* is live again: it is not historical, and the value it shows is the
\* newest stage output, as with no selection.
C29_SupersededPinFollowsLive ==
  [][ ( /\ selectedLogIndex # NullIndex
        /\ selectedLogIndex = Len(state.logs) - 1
        /\ selectedLogIndex' = selectedLogIndex
        /\ Len(state'.logs) > Len(state.logs) ) =>
      ( /\ ~IsViewingPast(state', selectedLogIndex')
        /\ SelectedAgentResponse(state', selectedLogIndex') =
             SelectedAgentResponse(state', NullIndex) ) ]_vars


\* C31: a step that changes the search text, the sort key, the direction or
\* the preset, resets or restores the view, or exports, leaves the loaded
\* alert collection as it was: the same records in the same order.
C31_ViewKeepsCollection ==
  [][ ( \/ CurrentView' # CurrentView
        \/ download'.made
        \/ phase' # phase
        \/ storage' # storage ) => alerts' = alerts ]_vars

\* an export of a view that orders the loaded records differently
C31_Witness ==
  /\ download.made
  /\ alerts # <<>>
  /\ Len(filteredAlerts) = Len(alerts)
  /\ filteredAlerts # alerts
  /\ sortKey = "amount"


\* C32: the status broadcast changes only in a step of the message handler,
\* the error handler or stop; loading alerts, changing, resetting or
\* exporting the view, selecting a log row, Clear, a reply and finalize
\* leave each of its fields as it was.
C32_StatusWriters ==
  [][ ui' # ui =>
        \/ Stop
        \/ \E h \in handles, st \in BroadcastSnapshots : OnMessageStart(h, st)
        \/ \E h \in handles : OnError(h) ]_vars

\* the broadcast still shows the second stage after a row was selected, the
\* snapshot cleared, the view searched and exported
C32_Witness ==
  /\ ui.connected
  /\ ui.currentStep = "2"
  /\ selectedLogIndex = 1
  /\ state = InitialState
  /\ alertSearch # <<>>
  /\ download.made


\* C33: in the step after stop, unless that step invokes start or
\* reconnect, no handle is open and no snapshot is applied; a start response
\* arriving then opens no channel.
C33_QuietAfterStop ==
  [][ (lastEvent.op = "stop" /\ lastEvent'.op \notin {"start", "reconnect"})
        => handles' = {} /\ applied' = applied ]_vars


\* C34: while a handle is open the console holds a session id, and the
\* handle is a channel of that session.
C34_HandleOfHeldSession ==
  \A h \in handles : sessionId # NoSession /\ h.sid = sessionId


\* C36: a step that handles an inbound message either leaves the stored
\* snapshot, the page-local connection status and the status broadcast all
\* as they were, or updates all three from the message.
C36_MessageAllOrNothing ==
  [][ lastEvent'.op \in {"message", "badmsg"} =>
        \/ /\ state' = state
           /\ localConnected' = localConnected
           /\ localStatus' = localStatus
           /\ ui' = ui
        \/ /\ state' = applied'.snap
           /\ localConnected'
           /\ localStatus' = "Streaming"
           /\ ui'.connected
           /\ ui'.status = "Streaming"
           /\ ui'.currentStep = state'.current_step
           /\ ui'.streamingAgent = state'.streaming_agent ]_vars

\* C35: after a message, an error or stop has been handled, the status
\* broadcast and the page-local indicator show the same connected flag and
\* the same status text, and connected means that a handle is open.
C35_IndicatorsAgree ==
  lastEvent.op \in {"message", "error", "stop"} =>
    /\ ui.connected = localConnected
    /\ ui.status = localStatus
    /\ ui.connected => handles # {}


\* C38: a start call that fails leaves the held session id, the handles,
\* the held handle and the stored snapshot as they were, and the loading
\* flag is false afterwards.
C38_FailedStartKeepsSession ==
  [][ lastEvent'.op = "startReject" =>
        /\ sessionId' = sessionId
        /\ handles' = handles
        /\ streamRef' = streamRef
        /\ state' = state
        /\ ~loading' ]_vars

\* a start call failed while an earlier session was streaming
C38_Witness ==
  /\ lastEvent.op = "startReject"
  /\ sessionId # NoSession
  /\ lastEvent.hadOpen
  /\ handles # {}
  /\ state # InitialState
  /\ ~loading


\* C39: the loading flag is true exactly while a start call is in flight.
C39_LoadingIffInFlight == loading <=> inFlight > 0


\* C40: when every alert request has settled, the alert collection is what
\* the backend at the current address answered (the empty list if that
\* request failed), in whatever order the responses arrived.
C40_AlertsOfCurrentBackend ==
  alertRequests = <<>> => alerts = AlertsFrom(BackendAnswer(backendUrl))


\* C37: if from some point on the full text no longer changes, then from
\* some point on the displayed text equals the full text and no reveal timer
\* is live.
C37_RevealSettles ==
  <>[][fullText' = fullText]_vars => <>[](displayed = fullText /\ timers = {})

\* a reveal that replaced a running reveal has completed
C37_Witness ==
  /\ lastChange.kind = "append"
  /\ lastChange.inflight
  /\ ~onlyAppends
  /\ ticks >= 2
  /\ timers = {}
  /\ displayed = fullText

====
